---- MODULE Spec2Model ----
(***************************************************************************)
(* Model of the langfuse_fastapi_mvp service (src/src/app.py, obsv.py,     *)
(* metrics.py, config.py): the metrics middleware, the POST /ask handler   *)
(* with its retried LLM call, the guardrail functions and the Langfuse     *)
(* wrapper.                                                                *)
(*                                                                         *)
(* Text is a sequence of one-character strings.  The two non-ASCII         *)
(* characters of the source are written as tokens: ELLIPSIS is U+2026 and  *)
(* U_ACUTE / U_ACUTE_UP are U+00FA / U+00DA.  An Optional value is a set:  *)
(* None is {} and Some(x) is {x}.  Floats are kept in tenths (10 = 1.0).   *)
(***************************************************************************)
EXTENDS Integers, Sequences, FiniteSets, Bags, TLC

\* ------------------------------------------------------------------ bounds
NumReqs == 2
NumSerial == 1
MaxLen == 5
MaxPieces == 2

\* ------------------------------------------------------- program constants
MinQuestionLen == 3
MaxQuestionLen == 2000
MaxAttempts == 3
WaitMultiplier == 3
WaitMin == 3
WaitMax == 30
DefaultStatus == 500
UpstreamStatus == 502
ValidationStatus == 422
OkStatus == 200
DefaultMaxWords == 150

\* ------------------------------------------------------------ Optional
None == {}
Some(x) == {x}
Val(o) == CHOOSE x \in o : TRUE

\* ---------------------------------------------------------------- text
ELLIPSIS == "ELLIPSIS"
U_ACUTE == "u_acute"
U_ACUTE_UP == "U_ACUTE"
SPACE == " "
NEWLINE == "\n"

\* str.isspace() on the characters of the model's alphabet
IsSpace(c) == c \in {SPACE, NEWLINE}

\* str.split() with no separator: runs of whitespace separate the words and
\* no empty word is produced.  cur is the word being read.
RECURSIVE SplitFrom(_, _, _)
SplitFrom(text, i, cur) ==
    IF i > Len(text)
    THEN IF cur = <<>> THEN <<>> ELSE <<cur>>
    ELSE IF IsSpace(text[i])
         THEN IF cur = <<>>
              THEN SplitFrom(text, i + 1, <<>>)
              ELSE <<cur>> \o SplitFrom(text, i + 1, <<>>)
         ELSE SplitFrom(text, i + 1, Append(cur, text[i]))

Split(text) == SplitFrom(text, 1, <<>>)

\* " ".join(words)
RECURSIVE Join(_)
Join(words) ==
    IF words = <<>> THEN <<>>
    ELSE IF Len(words) = 1 THEN words[1]
    ELSE words[1] \o <<SPACE>> \o Join(Tail(words))

\* words[:n] with Python's slice rule: a negative n counts from the end.
SliceTo(words, n) ==
    LET stop == IF n < 0
                THEN (IF Len(words) + n < 0 THEN 0 ELSE Len(words) + n)
                ELSE (IF n > Len(words) THEN Len(words) ELSE n)
    IN  SubSeq(words, 1, stop)

\* truncate_words with the ellipsis separated from the last word by a space.
truncate_words_spaced(text, max_words) ==
    IF max_words = None THEN text
    ELSE LET words == Split(text)
         IN  IF Len(words) <= Val(max_words) THEN text
             ELSE Join(SliceTo(words, Val(max_words))) \o <<SPACE, ELLIPSIS>>

\* truncate_words(text, max_words); max_words is Optional[int]
truncate_words(text, max_words) ==
    IF max_words = None THEN text
    ELSE LET words == Split(text)
         IN  IF Len(words) <= Val(max_words) THEN text
             ELSE Join(SliceTo(words, Val(max_words))) \o <<ELLIPSIS>>

\* str.strip() is non-empty exactly when some character is not whitespace
StripNonEmpty(text) == \E i \in 1..Len(text) : ~IsSpace(text[i])

\* str.lower() on the characters of the model's alphabet
LowerChar(c) ==
    CASE c = "I" -> "i"
      [] c = "D" -> "d"
      [] c = "O" -> "o"
      [] c = "T" -> "t"
      [] c = "A" -> "a"
      [] c = "M" -> "m"
      [] c = "R" -> "r"
      [] c = U_ACUTE_UP -> U_ACUTE
      [] OTHER -> c

Lower(text) == [i \in 1..Len(text) |-> LowerChar(text[i])]

\* b in s, for strings: b is a contiguous piece of s
Contains(s, b) ==
    \E i \in 1..(Len(s) - Len(b) + 1) : SubSeq(s, i, i + Len(b) - 1) = b

\* the list bad of basic_toxicity_heuristic
bad == << <<"e","s","t",U_ACUTE,"p","i","d","o">>,
          <<"i","d","i","o","t","a">>,
          <<"o","d","i","a","r">>,
          <<"m","a","t","a","r">> >>

\* sum(1 for b in bad if b in lowered), over bad[k..]
RECURSIVE HitsFrom(_, _)
HitsFrom(lowered, k) ==
    IF k > Len(bad) THEN 0
    ELSE (IF Contains(lowered, bad[k]) THEN 1 ELSE 0) + HitsFrom(lowered, k + 1)

\* the number of places where b starts in s
Occurrences(s, b) ==
    Cardinality({i \in 1..(Len(s) - Len(b) + 1) : SubSeq(s, i, i + Len(b) - 1) = b})

\* A heuristic that counts every occurrence of every flagged term.
RECURSIVE OccurrencesFrom(_, _)
OccurrencesFrom(lowered, k) ==
    IF k > Len(bad) THEN 0
    ELSE Occurrences(lowered, bad[k]) + OccurrencesFrom(lowered, k + 1)

ScoreOfHits(hits) ==
    IF hits = 0 THEN 10 ELSE (IF 10 - 2 * hits < 0 THEN 0 ELSE 10 - 2 * hits)

basic_toxicity_heuristic_occ(text) == ScoreOfHits(OccurrencesFrom(Lower(text), 1))

\* basic_toxicity_heuristic(text), in tenths
basic_toxicity_heuristic(text) == ScoreOfHits(HitsFrom(Lower(text), 1))


\* ------------------------------------------------------------- state
VARIABLES
    settings,         \* config.settings: which environment values are present
    HAS,              \* obsv._HAS: the langfuse import succeeded
    client,           \* app.client: "OpenAI" or "None"
    obs_enabled,      \* app.obs_enabled
    obs_client,       \* app.obs.client: "Langfuse" or "None"
    IN_PROGRESS,      \* metrics.IN_PROGRESS, the gauge's value
    REQUESTS_TOTAL,   \* metrics.REQUESTS_TOTAL, a bag of label records
    REQUEST_LATENCY,  \* metrics.REQUEST_LATENCY, a bag of label records (one copy per observation)
    LLM_LATENCY,      \* metrics.LLM_LATENCY, number of observations for the model label
    LLM_LATENCY_SUM,  \* metrics.LLM_LATENCY, sum of the observed values, in tenths of a second
    TOKENS_USED,      \* metrics.TOKENS_USED, number of observations
    log,              \* records handed to the "app" logger, in order
    langfuse,         \* what the Langfuse backend has received
    pc,               \* where each request is
    request,          \* the inbound request (path, method, JSON body)
    request_id,       \* request.state.request_id (0: not set)
    status_code,      \* metrics_middleware's local status_code
    response,         \* the response call_next produced
    exc,              \* the exception in flight
    trace,            \* ask's local trace (its id)
    attempt,          \* executions of call_llm's body so far (tenacity's attempt_number)
    slept,            \* backoff waits taken by the retry loop
    perf_counter,     \* time.perf_counter() as call_llm reads it, in tenths of a second
                      \* since the retry loop was entered
    t0,               \* call_llm's local t0
    provider_calls,   \* calls of client.chat.completions.create
    completion,       \* ask's local completion
    delivered,        \* what the HTTP client received
    text,             \* guardrail input: a text
    max_words,        \* guardrail input: Ask.max_words
    answer,           \* truncate_words' result
    score,            \* basic_toxicity_heuristic's result, in tenths
    gpc               \* guardrail specifications: "in" before the call, "out" after

startupVars == <<settings, HAS, client, obs_enabled, obs_client>>
metricVars == <<IN_PROGRESS, REQUESTS_TOTAL, REQUEST_LATENCY, LLM_LATENCY, LLM_LATENCY_SUM,
                TOKENS_USED>>
handlerVars == <<trace, attempt, slept, perf_counter, t0, provider_calls, completion>>
guardVars == <<text, max_words, answer, score, gpc>>
vars == <<startupVars, metricVars, log, langfuse, pc, request, request_id, status_code,
          response, exc, handlerVars, delivered, guardVars>>

\* The requests, numbered in the order they arrive
Reqs == DOMAIN pc

\* ------------------------------------------------------- startup (import time)
AllSettings == [openai_api_key : BOOLEAN, langfuse_public_key : BOOLEAN,
                langfuse_secret_key : BOOLEAN, langfuse_host : BOOLEAN]

\* app.client
MakeClient(s) == IF s.openai_api_key THEN "OpenAI" ELSE "None"

\* Enablement by any one of the three credentials.
ObsEnabled_any(s) == s.langfuse_public_key \/ s.langfuse_secret_key \/ s.langfuse_host

\* app.obs_enabled
ObsEnabled(s) == s.langfuse_public_key /\ s.langfuse_secret_key /\ s.langfuse_host

\* Obs.__init__
ObsInit(enabled, has) == IF enabled /\ has THEN "Langfuse" ELSE "None"

\* ------------------------------------------------------- Langfuse wrapper
NullId == "null"
TraceIds == <<"trace-1", "trace-2", "trace-3", "trace-4", "trace-5", "trace-6">>
GenerationIds == <<"gen-1", "gen-2", "gen-3", "gen-4", "gen-5", "gen-6">>
SpanIds == <<"span-1", "span-2", "span-3", "span-4", "span-5", "span-6">>

EmptyBackend == [traces |-> 0, spans |-> 0, generations |-> 0, scores |-> EmptyBag]

\* self.client.<method>(**k): an attribute of None raises AttributeError, the
\* Langfuse client records the entry and hands back an object with a fresh id.
ClientCall(cl, lf, method, arg) ==
    IF cl = "None"
    THEN [raised |-> TRUE, id |-> NullId, lf |-> lf]
    ELSE CASE method = "trace" ->
                [raised |-> FALSE, id |-> TraceIds[lf.traces + 1],
                 lf |-> [lf EXCEPT !.traces = @ + 1]]
           [] method = "span" ->
                [raised |-> FALSE, id |-> SpanIds[lf.spans + 1],
                 lf |-> [lf EXCEPT !.spans = @ + 1]]
           [] method = "generation" ->
                [raised |-> FALSE, id |-> GenerationIds[lf.generations + 1],
                 lf |-> [lf EXCEPT !.generations = @ + 1]]
           [] method = "score" ->
                [raised |-> FALSE, id |-> NullId,
                 lf |-> [lf EXCEPT !.scores = @ (+) SetToBag({arg})]]

\* _Null()
NullObject(lf) == [raised |-> FALSE, id |-> NullId, lf |-> lf]

\* The wrapper without its "if self.client" guard.
ObsCall_unguarded(cl, lf, method, arg) == ClientCall(cl, lf, method, arg)

\* Obs.trace / Obs.span / Obs.generation / Obs.score
ObsCall(cl, lf, method, arg) ==
    IF cl # "None" THEN ClientCall(cl, lf, method, arg) ELSE NullObject(lf)

NoArg == [trace_id |-> NullId, name |-> "", value |-> 0]

\* ------------------------------------------------------- requests and responses
NoRequest == [endpoint |-> "", method |-> "", question |-> 0, max_words |-> None]
NoResponse == [status_code |-> 0, body |-> [kind |-> "none"]]
NoExc == [type |-> "", text |-> ""]

\* Ask.question: Field(min_length=3, max_length=2000), on the number of characters
\* A length check whose lower bound is off by one.
ValidQuestion_loose(q) == MinQuestionLen - 1 <= q /\ q <= MaxQuestionLen

ValidQuestion(q) == MinQuestionLen <= q /\ q <= MaxQuestionLen

\* The provider's completion objects: the first choice's content and the usage.
UsageFull == Some([has_total_tokens |-> TRUE, has_model_dump |-> TRUE])
UsageNoTotal == Some([has_total_tokens |-> FALSE, has_model_dump |-> TRUE])
UsageNoDump == Some([has_total_tokens |-> TRUE, has_model_dump |-> FALSE])

TextAB == <<"a", SPACE, "b">>
TextTox == <<"I", "d", "i", "o", "t", "a", SPACE, "a", SPACE, "b">>

\* What clients and the provider may send, per specification: how many requests
\* may be in flight together (cap), the question lengths, the max_words values,
\* the first choice's content, the usage objects and the provider's error texts.
\* FullLoad takes every input, one request at a time.
FullLoad ==
    [cap |-> 1,
     questions |-> {MinQuestionLen - 1, MinQuestionLen, MaxQuestionLen, MaxQuestionLen + 1},
     maxwords |-> {None, Some(-1), Some(0), Some(1), Some(DefaultMaxWords)},
     contents |-> {None, Some(<<>>), Some(TextAB), Some(TextTox)},
     usages |-> {None, UsageFull, UsageNoTotal, UsageNoDump},
     errors |-> {"boom"},
     durations |-> {1}]

\* MixedLoad lets all requests overlap, over inputs that take each exit path:
\* 200, 422, 502 and an unhandled exception.
MixedLoad ==
    [cap |-> NumReqs,
     questions |-> {MinQuestionLen - 1, MinQuestionLen},
     maxwords |-> {Some(DefaultMaxWords)},
     contents |-> {None, Some(TextAB)},
     usages |-> {UsageFull},
     errors |-> {"boom"},
     durations |-> {1}]

\* TimedLoad lets all requests overlap and lets a provider call take one or two
\* tenths of a second, whether it returns or raises.
TimedLoad ==
    [cap |-> NumReqs,
     questions |-> {MinQuestionLen - 1, MinQuestionLen},
     maxwords |-> {Some(DefaultMaxWords)},
     contents |-> {Some(TextAB)},
     usages |-> {UsageFull},
     errors |-> {"boom"},
     durations |-> {1, 2}]

InFlight == {r \in Reqs : pc[r] \notin {"idle", "done"}}


\* str(n) for n >= 0, as a sequence of digit characters
DigitChars == <<"0", "1", "2", "3", "4", "5", "6", "7", "8", "9">>
RECURSIVE IntToStr(_)
IntToStr(n) ==
    IF n < 10 THEN <<DigitChars[n + 1]>>
    ELSE Append(IntToStr(n \div 10), DigitChars[(n % 10) + 1])

\* ------------------------------------------------------------- Init
InitStartup(S) ==
    /\ settings \in S
    /\ HAS \in BOOLEAN
    /\ client = MakeClient(settings)
    /\ obs_enabled = ObsEnabled(settings)
    /\ obs_client = ObsInit(obs_enabled, HAS)

InitPipeline(n) ==
    /\ IN_PROGRESS = 0
    /\ REQUESTS_TOTAL = EmptyBag
    /\ REQUEST_LATENCY = EmptyBag
    /\ LLM_LATENCY = 0
    /\ LLM_LATENCY_SUM = 0
    /\ TOKENS_USED = 0
    /\ log = <<>>
    /\ langfuse = EmptyBackend
    /\ pc = [r \in 1..n |-> "idle"]
    /\ request = [r \in 1..n |-> NoRequest]
    /\ request_id = [r \in 1..n |-> 0]
    /\ status_code = [r \in 1..n |-> 0]
    /\ response = [r \in 1..n |-> NoResponse]
    /\ exc = [r \in 1..n |-> NoExc]
    /\ trace = [r \in 1..n |-> NullId]
    /\ attempt = [r \in 1..n |-> 0]
    /\ slept = [r \in 1..n |-> 0]
    /\ perf_counter = [r \in 1..n |-> 0]
    /\ t0 = [r \in 1..n |-> 0]
    /\ provider_calls = [r \in 1..n |-> 0]
    /\ completion = [r \in 1..n |-> None]
    /\ delivered = [r \in 1..n |-> NoResponse]

InitGuardOff ==
    /\ text = <<>>
    /\ max_words = None
    /\ answer = <<>>
    /\ score = 0
    /\ gpc = "off"

Init == InitStartup(AllSettings) /\ InitPipeline(NumSerial) /\ InitGuardOff

\* ------------------------------------------------------------- middleware
\* metrics_middleware up to "await call_next(request)": lines 65-71
MwEnter(r, W) ==
    /\ pc[r] = "idle"
    /\ \A s \in Reqs : s < r => pc[s] # "idle"
    /\ Cardinality(InFlight) < W.cap
    /\ \/ \E q \in W.questions, mw \in W.maxwords :
            request' = [request EXCEPT ![r] =
                [endpoint |-> "/ask", method |-> "POST", question |-> q, max_words |-> mw]]
       \/ request' = [request EXCEPT ![r] =
                [endpoint |-> "/health", method |-> "GET", question |-> 0, max_words |-> None]]
    /\ IN_PROGRESS' = IN_PROGRESS + 1
    /\ request_id' = [request_id EXCEPT ![r] = r]
    /\ status_code' = [status_code EXCEPT ![r] = DefaultStatus]
    /\ pc' = [pc EXCEPT ![r] = "call_next"]
    /\ UNCHANGED <<startupVars, REQUESTS_TOTAL, REQUEST_LATENCY, LLM_LATENCY, LLM_LATENCY_SUM,
                   TOKENS_USED, log, langfuse, response, exc, handlerVars, delivered,
                   guardVars>>

\* The gauge after a finally block that skips the decrement when the handler raised.
GaugeAtExit_leaky(g, raised) == IF raised THEN g ELSE g - 1

\* IN_PROGRESS.dec() in the finally block: line 80
GaugeAtExit(g, raised) == g - 1

\* A status that is read from the response only when it is a success.
FinalStatus_lossy(resp, initial, raised) ==
    IF ~raised /\ resp.status_code = OkStatus THEN resp.status_code ELSE initial

\* status_code as the finally block reads it: lines 69-73
FinalStatus(resp, initial, raised) ==
    IF raised THEN initial ELSE resp.status_code

\* What the client receives: the response, or Starlette's 500 for an exception
Delivered(resp, raised) ==
    IF raised
    THEN [status_code |-> DefaultStatus,
          body |-> [kind |-> "error", detail |-> <<"Internal Server Error">>]]
    ELSE resp

\* metrics_middleware from the return of call_next: lines 72-84.  The request's
\* locals go out of scope with it.
MwFinally(r) ==
    /\ pc[r] = "mw_exit"
    /\ LET raised == exc[r] # NoExc
           sc == FinalStatus(response[r], status_code[r], raised)
           endpoint == request[r].endpoint
           method == request[r].method
       IN  /\ REQUEST_LATENCY' = REQUEST_LATENCY (+)
                  SetToBag({[endpoint |-> endpoint, method |-> method]})
           /\ REQUESTS_TOTAL' = REQUESTS_TOTAL (+)
                  SetToBag({[endpoint |-> endpoint, method |-> method, status |-> IntToStr(sc)]})
           /\ IN_PROGRESS' = GaugeAtExit(IN_PROGRESS, raised)
           /\ log' = Append(log, [level |-> "INFO", request_id |-> request_id[r],
                                  msg |-> "request completed", text |-> ""])
           /\ delivered' = [delivered EXCEPT ![r] = Delivered(response[r], raised)]
    /\ pc' = [pc EXCEPT ![r] = "done"]
    /\ request' = [request EXCEPT ![r] = NoRequest]
    /\ request_id' = [request_id EXCEPT ![r] = 0]
    /\ status_code' = [status_code EXCEPT ![r] = 0]
    /\ response' = [response EXCEPT ![r] = NoResponse]
    /\ exc' = [exc EXCEPT ![r] = NoExc]
    /\ trace' = [trace EXCEPT ![r] = NullId]
    /\ attempt' = [attempt EXCEPT ![r] = 0]
    /\ slept' = [slept EXCEPT ![r] = 0]
    /\ perf_counter' = [perf_counter EXCEPT ![r] = 0]
    /\ t0' = [t0 EXCEPT ![r] = 0]
    /\ provider_calls' = [provider_calls EXCEPT ![r] = 0]
    /\ completion' = [completion EXCEPT ![r] = None]
    /\ UNCHANGED <<startupVars, LLM_LATENCY, LLM_LATENCY_SUM, TOKENS_USED, langfuse, guardVars>>

\* ------------------------------------------------------------- handlers
\* health(): lines 184-191
Health(r) ==
    /\ pc[r] = "call_next"
    /\ request[r].endpoint = "/health"
    /\ response' = [response EXCEPT ![r] =
           [status_code |-> OkStatus,
            body |-> [kind |-> "health", status |-> "ok",
                      openai_configured |-> settings.openai_api_key,
                      langfuse_enabled |-> obs_enabled]]]
    /\ pc' = [pc EXCEPT ![r] = "mw_exit"]
    /\ UNCHANGED <<startupVars, metricVars, log, langfuse, request, request_id, status_code,
                   exc, handlerVars, delivered, guardVars>>

\* FastAPI validates the body against Ask before calling ask: a question out of
\* bounds is answered with 422 and ask is not called.
AskRejected(r) ==
    /\ pc[r] = "call_next"
    /\ request[r].endpoint = "/ask"
    /\ ~ValidQuestion(request[r].question)
    /\ response' = [response EXCEPT ![r] =
           [status_code |-> ValidationStatus,
            body |-> [kind |-> "validation", detail |-> <<"question">>]]]
    /\ pc' = [pc EXCEPT ![r] = "mw_exit"]
    /\ UNCHANGED <<startupVars, metricVars, log, langfuse, request, request_id, status_code,
                   exc, handlerVars, delivered, guardVars>>

\* ask, steps 1 and 2: lines 217-232
AskTrace(r) ==
    /\ pc[r] = "call_next"
    /\ request[r].endpoint = "/ask"
    /\ ValidQuestion(request[r].question)
    /\ LET t == ObsCall(obs_client, langfuse, "trace", NoArg)
       IN  /\ langfuse' = t.lf
           /\ IF t.raised
              THEN /\ exc' = [exc EXCEPT ![r] = [type |-> "AttributeError", text |-> "trace"]]
                   /\ pc' = [pc EXCEPT ![r] = "mw_exit"]
                   /\ UNCHANGED trace
              ELSE /\ trace' = [trace EXCEPT ![r] = t.id]
                   /\ pc' = [pc EXCEPT ![r] = "call_llm"]
                   /\ UNCHANGED exc
    /\ UNCHANGED <<startupVars, metricVars, log, request, request_id, status_code,
                   response, attempt, slept, perf_counter, t0, provider_calls, completion,
                   delivered, guardVars>>


\* ------------------------------------------------------------- call_llm
\* tenacity's default retry predicate, retry_if_exception_type(): the decorator
\* of call_llm passes no retry argument, so every Exception is retried.
RetryOn(type) == TRUE

\* A stop rule that allows one attempt more.
StopAfterAttempt_late(n) == n > MaxAttempts

\* stop_after_attempt(3): line 118
StopAfterAttempt(n) == n >= MaxAttempts

\* What the retry loop does after execution number n of the body raised.
AfterRaise(type, n) ==
    IF ~RetryOn(type) THEN "propagate"
    ELSE IF StopAfterAttempt(n) THEN "retry_error"
    ELSE "sleep"

\* wait_exponential(multiplier=0.3, min=0.3, max=3) after execution number n,
\* in tenths of a second: line 119
wait_exponential(n) ==
    LET result == WaitMultiplier * 2^(n - 1)
        capped == IF result < WaitMax THEN result ELSE WaitMax
    IN  IF capped > WaitMin THEN capped ELSE WaitMin

\* Execution of call_llm's body raised e after taking time took: the retry loop
\* of lines 117-120, which sleeps before the next execution
LlmRaise(r, e, took) ==
    LET n == attempt[r] + 1
        d == AfterRaise(e.type, n)
    IN  /\ attempt' = [attempt EXCEPT ![r] = n]
        /\ slept' = [slept EXCEPT ![r] = IF d = "sleep" THEN @ + 1 ELSE @]
        /\ perf_counter' = [perf_counter EXCEPT ![r] =
                IF d = "sleep" THEN @ + took + wait_exponential(n) ELSE @ + took]
        /\ pc' = [pc EXCEPT ![r] = IF d = "sleep" THEN "call_llm" ELSE "ask_except"]
        /\ exc' = [exc EXCEPT ![r] =
                IF d = "sleep" THEN NoExc
                ELSE IF d = "retry_error" THEN [type |-> "RetryError", text |-> e.text]
                ELSE e]

\* One execution of call_llm's body with client None: lines 136-137
LlmNotConfigured(r) ==
    /\ pc[r] = "call_llm"
    /\ client = "None"
    /\ LlmRaise(r, [type |-> "RuntimeError", text |-> "LLM not configured"], 0)
    /\ UNCHANGED <<startupVars, metricVars, log, langfuse, request, request_id, status_code,
                   response, trace, t0, provider_calls, completion, delivered, guardVars>>

\* One execution of call_llm's body in which the provider call raises: lines 138-143
LlmProviderRaises(r, W) ==
    /\ pc[r] = "call_llm"
    /\ client # "None"
    /\ t0' = [t0 EXCEPT ![r] = perf_counter[r]]
    /\ provider_calls' = [provider_calls EXCEPT ![r] = @ + 1]
    /\ \E e \in W.errors, took \in W.durations :
            LlmRaise(r, [type |-> "APIError", text |-> e], took)
    /\ UNCHANGED <<startupVars, metricVars, log, langfuse, request, request_id, status_code,
                   response, trace, completion, delivered, guardVars>>

\* A duration measured from the entry of the retry loop.
Observed_sinceEntry(start, end) == end

\* time.perf_counter() - t0: line 144
Observed(start, end) == end - start

\* One execution of call_llm's body in which the provider call returns: lines 138-145
LlmProviderReturns(r, W) ==
    /\ pc[r] = "call_llm"
    /\ client # "None"
    /\ provider_calls' = [provider_calls EXCEPT ![r] = @ + 1]
    /\ attempt' = [attempt EXCEPT ![r] = @ + 1]
    /\ t0' = [t0 EXCEPT ![r] = perf_counter[r]]
    /\ \E took \in W.durations :
            /\ perf_counter' = [perf_counter EXCEPT ![r] = @ + took]
            /\ LLM_LATENCY' = LLM_LATENCY + 1
            /\ LLM_LATENCY_SUM' = LLM_LATENCY_SUM + Observed(t0'[r], perf_counter'[r])
    /\ \E c \in W.contents, u \in W.usages :
            completion' = [completion EXCEPT ![r] = Some([content |-> c, usage |-> u])]
    /\ pc' = [pc EXCEPT ![r] = "ask_post"]
    /\ UNCHANGED <<startupVars, IN_PROGRESS, REQUESTS_TOTAL, REQUEST_LATENCY, TOKENS_USED,
                   log, langfuse, request, request_id, status_code, response, exc, trace,
                   slept, delivered, guardVars>>

\* ------------------------------------------------------------- ask, step 3 failing
\* logger.error(f"LLM error: {e}", extra={"request_id": request_id}): line 238
AskLogError(r) ==
    /\ pc[r] = "ask_except"
    /\ log' = Append(log, [level |-> "ERROR", request_id |-> request_id[r],
                           msg |-> "LLM error", text |-> exc[r].text])
    /\ pc' = [pc EXCEPT ![r] = "ask_raise"]
    /\ UNCHANGED <<startupVars, metricVars, langfuse, request, request_id, status_code,
                   response, exc, handlerVars, delivered, guardVars>>

\* A failure response that carries str(e) as its detail.
UpstreamFailure_leaky(e) ==
    [status_code |-> UpstreamStatus,
     body |-> [kind |-> "error", detail |-> <<"Upstream LLM error", e.text>>]]

\* HTTPException(status_code=502, detail="Upstream LLM error"), as FastAPI's
\* exception handler renders it: line 239
UpstreamFailure(e) ==
    [status_code |-> UpstreamStatus,
     body |-> [kind |-> "error", detail |-> <<"Upstream LLM error">>]]

\* raise HTTPException(...): line 239
AskRaise502(r) ==
    /\ pc[r] = "ask_raise"
    /\ response' = [response EXCEPT ![r] = UpstreamFailure(exc[r])]
    /\ exc' = [exc EXCEPT ![r] = NoExc]
    /\ pc' = [pc EXCEPT ![r] = "mw_exit"]
    /\ UNCHANGED <<startupVars, metricVars, log, langfuse, request, request_id, status_code,
                   handlerVars, delivered, guardVars>>

\* ------------------------------------------------------------- ask, steps 4-9
\* Lines 241-277, in the order Python evaluates them.  A step that raises
\* (AttributeError on None or on a usage without model_dump) ends the handler
\* with the effects of the steps before it.
AskPost(r) ==
    /\ pc[r] = "ask_post"
    /\ LET c == Val(completion[r])
           mw == request[r].max_words
           \* 242-245: truncate_words(None, n) calls None.split()
           raises245 == c.content = None /\ mw # None
           ans == IF c.content = None THEN None
                  ELSE Some(truncate_words(Val(c.content), mw))
           \* 248-250
           usage == c.usage
           observes == ~raises245 /\ usage # None /\ Val(usage).has_total_tokens
           \* 258: usage.model_dump() if usage else None
           raises258 == ~raises245 /\ usage # None /\ ~Val(usage).has_model_dump
           \* 252-260
           callsGen == ~raises245 /\ ~raises258
           g == ObsCall(obs_client, langfuse, "generation", NoArg)
           raisesGen == callsGen /\ g.raised
           lf1 == IF callsGen THEN g.lf ELSE langfuse
           \* 264: answer.strip() on None
           raises264 == callsGen /\ ~raisesGen /\ ans = None
           callsScores == callsGen /\ ~raisesGen /\ ~raises264
           s1 == ObsCall(obs_client, lf1, "score",
                         [trace_id |-> trace[r], name |-> "non_empty_answer",
                          value |-> IF StripNonEmpty(Val(ans)) THEN 10 ELSE 0])
           s2 == ObsCall(obs_client, s1.lf, "score",
                         [trace_id |-> trace[r], name |-> "toxicity_safe",
                          value |-> basic_toxicity_heuristic(Val(ans))])
           raisesScore == callsScores /\ (s1.raised \/ s2.raised)
           ok == callsScores /\ ~raisesScore
       IN  /\ TOKENS_USED' = IF observes THEN TOKENS_USED + 1 ELSE TOKENS_USED
           /\ langfuse' = IF callsScores THEN (IF s1.raised THEN s1.lf ELSE s2.lf) ELSE lf1
           /\ IF ok
              THEN /\ response' = [response EXCEPT ![r] =
                         [status_code |-> OkStatus,
                          body |-> [kind |-> "answer", answer |-> Val(ans),
                                    trace_id |-> trace[r], generation_id |-> g.id,
                                    request_id |-> request_id[r]]]]
                   /\ UNCHANGED exc
              ELSE /\ exc' = [exc EXCEPT ![r] = [type |-> "AttributeError", text |-> "ask"]]
                   /\ UNCHANGED response
    /\ pc' = [pc EXCEPT ![r] = "mw_exit"]
    /\ UNCHANGED <<startupVars, IN_PROGRESS, REQUESTS_TOTAL, REQUEST_LATENCY, LLM_LATENCY,
                   LLM_LATENCY_SUM, log, request, request_id, status_code, handlerVars,
                   delivered, guardVars>>

\* ------------------------------------------------------------- specifications
\* NumSerial requests, one at a time (as the test client sends them), every input.
Next ==
    \E r \in 1..NumSerial :
        \/ MwEnter(r, FullLoad)
        \/ Health(r)
        \/ AskRejected(r)
        \/ AskTrace(r)
        \/ LlmNotConfigured(r)
        \/ LlmProviderRaises(r, FullLoad)
        \/ LlmProviderReturns(r, FullLoad)
        \/ AskLogError(r)
        \/ AskRaise502(r)
        \/ AskPost(r)
        \/ MwFinally(r)

Spec == Init /\ [][Next]_vars


\* NumReqs requests in flight together, over a workload that takes every exit path.
NextConc ==
    \E r \in 1..NumReqs :
        \/ MwEnter(r, MixedLoad)
        \/ Health(r)
        \/ AskRejected(r)
        \/ AskTrace(r)
        \/ LlmNotConfigured(r)
        \/ LlmProviderRaises(r, MixedLoad)
        \/ LlmProviderReturns(r, MixedLoad)
        \/ AskLogError(r)
        \/ AskRaise502(r)
        \/ AskPost(r)
        \/ MwFinally(r)

\* Tracing off; the provider credential present or absent
ConcSettings == {s \in AllSettings : ~s.langfuse_public_key /\ ~s.langfuse_secret_key /\ ~s.langfuse_host}

InitConc == InitStartup(ConcSettings) /\ HAS /\ InitPipeline(NumReqs) /\ InitGuardOff

SpecConc == InitConc /\ [][NextConc]_vars

\* NumReqs requests in flight together, with provider calls of different durations.
NextLlm ==
    \E r \in 1..NumReqs :
        \/ MwEnter(r, TimedLoad)
        \/ Health(r)
        \/ AskRejected(r)
        \/ AskTrace(r)
        \/ LlmNotConfigured(r)
        \/ LlmProviderRaises(r, TimedLoad)
        \/ LlmProviderReturns(r, TimedLoad)
        \/ AskLogError(r)
        \/ AskRaise502(r)
        \/ AskPost(r)
        \/ MwFinally(r)

SpecLlm == InitConc /\ [][NextLlm]_vars


\* ------------------------------------------------------------- guardrails alone
InitNoService ==
    /\ InitStartup({[openai_api_key |-> FALSE, langfuse_public_key |-> FALSE,
                     langfuse_secret_key |-> FALSE, langfuse_host |-> FALSE]})
    /\ HAS
    /\ InitPipeline(0)

\* Every text of at most MaxLen characters over a word character and two
\* whitespace characters
TruncAlphabet == {"a", SPACE, NEWLINE}
TruncTexts == UNION {[1..k -> TruncAlphabet] : k \in 0..MaxLen}
TruncLimits == {None} \cup {Some(m) : m \in (0 - MaxLen)..MaxLen}

InitTrunc ==
    /\ InitNoService
    /\ text \in TruncTexts
    /\ max_words \in TruncLimits
    /\ answer = <<>>
    /\ score = 0
    /\ gpc = "in"

\* ask, step 4: answer = truncate_words(answer, req.max_words), lines 244-245
Truncate ==
    /\ gpc = "in"
    /\ answer' = truncate_words(text, max_words)
    /\ gpc' = "out"
    /\ UNCHANGED <<startupVars, metricVars, log, langfuse, pc, request, request_id,
                   status_code, response, exc, handlerVars, delivered, text, max_words, score>>

NextTrunc == Truncate

SpecTrunc == InitTrunc /\ [][NextTrunc]_vars

\* Texts made of at most MaxPieces pieces: the flagged terms in several cases,
\* parts of them, and unflagged characters
ToxPieces ==
    {bad[1], bad[2], bad[3], bad[4],
     <<"I","D","I","O","T","A">>, <<"M","a","t","a","r">>,
     <<"E","S","T",U_ACUTE_UP,"P","I","D","O">>,
     <<"o","d">>, <<"i","a","r">>, <<SPACE>>, <<"x">>}

RECURSIVE ToxTextsOf(_)
ToxTextsOf(n) ==
    IF n = 0 THEN {<<>>}
    ELSE LET shorter == ToxTextsOf(n - 1)
         IN  shorter \cup {t \o p : t \in shorter, p \in ToxPieces}

ToxTexts == ToxTextsOf(MaxPieces)

InitTox ==
    /\ InitNoService
    /\ text \in ToxTexts
    /\ max_words = None
    /\ answer = <<>>
    /\ score = 0
    /\ gpc = "in"

\* ask, step 8b: value=basic_toxicity_heuristic(answer), lines 266-270
ScoreToxicity ==
    /\ gpc = "in"
    /\ score' = basic_toxicity_heuristic(text)
    /\ gpc' = "out"
    /\ UNCHANGED <<startupVars, metricVars, log, langfuse, pc, request, request_id,
                   status_code, response, exc, handlerVars, delivered, text, max_words, answer>>

NextTox == ScoreToxicity

SpecTox == InitTox /\ [][NextTox]_vars


\* ============================================================= claims
Entering(r) == pc[r] = "idle" /\ pc'[r] # "idle"
Exiting(r) == pc[r] = "mw_exit" /\ pc'[r] = "done"

\* ---- C1 ----
\* The gauge equals the number of requests that have entered and not yet exited.
C1_GaugeCountsInFlight == IN_PROGRESS = Cardinality(InFlight)

\* Every step moves the gauge by the entries minus the exits it makes.
C1_GaugeStep ==
    IN_PROGRESS' = IN_PROGRESS
        + Cardinality({r \in Reqs : Entering(r)})
        - Cardinality({r \in Reqs : Exiting(r)})

\* C1: the in-flight gauge goes up by one exactly when a request enters the
\* middleware and down by one exactly when a request leaves it, whatever the
\* exit path and however the requests interleave; so in every reachable state it
\* equals the number of requests that have entered and not yet exited, and it is
\* back at its starting value (0) once all have exited.
C1_GaugePairing == [](C1_GaugeCountsInFlight) /\ [][C1_GaugeStep]_vars

\* Request 2 logged its LLM failure before request 1 (whose handler raised an
\* unhandled exception) left the middleware; both have exited and the gauge is 0.
C1_Witness ==
    /\ \A r \in Reqs : pc[r] = "done"
    /\ IN_PROGRESS = 0
    /\ delivered[1].status_code = DefaultStatus
    /\ delivered[2].status_code = UpstreamStatus
    /\ \E i, j \in DOMAIN log :
          /\ i < j
          /\ log[i].level = "ERROR" /\ log[i].request_id = 2
          /\ log[j].level = "INFO" /\ log[j].request_id = 1


\* ---- C2 ----
\* The messages a provider call or the configuration check can raise with
ProviderTexts == FullLoad.errors \cup MixedLoad.errors \cup {"LLM not configured"}

SeqRange(q) == {q[i] : i \in DOMAIN q}

IsUpstreamError(resp) ==
    /\ resp.status_code = UpstreamStatus
    /\ resp.body.kind = "error"
    /\ resp.body.detail = <<"Upstream LLM error">>
    /\ SeqRange(resp.body.detail) \cap ProviderTexts = {}

ErrorLogged(rid) ==
    \E i \in DOMAIN log :
        log[i].level = "ERROR" /\ log[i].request_id = rid /\ log[i].msg = "LLM error"

\* A request in whose handler call_llm has raised has no response before the
\* error is logged under its correlation id, and a response of the upstream
\* failure only.
C2_State ==
    \A r \in Reqs :
        /\ pc[r] \in {"ask_except", "ask_raise"} =>
              /\ response[r] = NoResponse
              /\ request_id[r] = r
              /\ (pc[r] = "ask_raise" => ErrorLogged(request_id[r]))
        /\ response[r].status_code = UpstreamStatus =>
              IsUpstreamError(response[r]) /\ ErrorLogged(request_id[r])
        /\ delivered[r].status_code = UpstreamStatus => IsUpstreamError(delivered[r])

\* Such a request leaves the handler only with that response, and the client
\* receives it.
C2_Step ==
    \A r \in Reqs :
        /\ pc[r] = "ask_except" => pc'[r] \in {"ask_except", "ask_raise"}
        /\ pc[r] = "ask_raise" /\ pc'[r] # "ask_raise" =>
              /\ pc'[r] = "mw_exit"
              /\ exc'[r] = NoExc
              /\ IsUpstreamError(response'[r])
        /\ Exiting(r) /\ response[r].status_code = UpstreamStatus =>
              delivered'[r] = response[r]

\* C2: whenever call_llm raises inside POST /ask, the request ends with status
\* 502 and the fixed detail "Upstream LLM error", never with 500 and never with
\* the provider exception's text, and the error is logged with the request's
\* correlation id before the response is produced.
C2_UpstreamFailureIsOpaque502 == [](C2_State) /\ [][C2_Step]_vars

\* The provider raised "boom" three times; the client got the 502.
C2_Witness ==
    \E r \in Reqs :
        /\ pc[r] = "done"
        /\ client = "OpenAI"
        /\ IsUpstreamError(delivered[r])
        /\ \E i \in DOMAIN log : log[i].level = "ERROR" /\ log[i].text = "boom"

\* ---- C3 ----
\* C3: with no provider credential (client is None), call_llm fails after exactly
\* one execution of its body, with the configuration error itself, without a
\* backoff wait and without a provider call.
C3_ConfigErrorNotRetried ==
    \A r \in Reqs :
        (client = "None" /\ pc[r] = "ask_except") =>
            /\ attempt[r] = 1
            /\ slept[r] = 0
            /\ provider_calls[r] = 0
            /\ exc[r].type = "RuntimeError"

\* ---- C4 ----
C4_State ==
    \A r \in Reqs :
        /\ provider_calls[r] <= 3
        /\ client # "None" => provider_calls[r] = attempt[r]
        \* another attempt is due only while fewer than 3 were made, and it can be made
        /\ pc[r] = "call_llm" =>
              /\ attempt[r] < 3
              /\ ENABLED (LlmNotConfigured(r) \/ LlmProviderRaises(r, FullLoad)
                          \/ LlmProviderReturns(r, FullLoad))
        \* the failure reaches the caller only after the third attempt raised
        /\ (pc[r] = "ask_except" /\ client # "None") => provider_calls[r] = 3
        \* the first attempt that returns ends the call with its completion
        /\ pc[r] = "ask_post" => completion[r] # None /\ provider_calls[r] \in 1..3

C4_Step ==
    \A r \in Reqs :
        \* a provider call is made only by a call_llm that has not returned, whose
        \* earlier attempts (if any) all raised
        /\ provider_calls'[r] # provider_calls[r] =>
              \/ pc[r] = "call_llm" /\ provider_calls'[r] = provider_calls[r] + 1
              \/ Exiting(r) /\ provider_calls'[r] = 0
        \* every step of the retry loop is one more attempt
        /\ pc[r] = "call_llm" /\ <<pc[r], attempt[r], slept[r]>>' # <<pc[r], attempt[r], slept[r]>> =>
              attempt'[r] = attempt[r] + 1

\* C4: with a provider credential, one call_llm makes at most 3 provider calls,
\* stops at the first one that returns and yields its completion, makes a further
\* one only after the previous one raised, and fails to its caller only after the
\* third has raised; the retry loop always has a next step and at most 3 of them.
C4_AtMostThreeAttempts == [](C4_State) /\ [][C4_Step]_vars

\* The third provider call raised and the failure reached ask.
C4_Witness ==
    \E r \in Reqs :
        /\ client = "OpenAI"
        /\ pc[r] = "ask_except"
        /\ provider_calls[r] = 3
        /\ slept[r] = 2

\* ---- C5 ----
\* C5: once call_llm has returned a completion, POST /ask ends with status 200
\* and an Answer record, whatever is missing in the completion and whether or not
\* tracing is enabled.
C5_AlwaysOkAfterCompletion ==
    \A r \in Reqs :
        (pc[r] = "mw_exit" /\ completion[r] # None) =>
            /\ exc[r] = NoExc
            /\ response[r].status_code = OkStatus
            /\ response[r].body.kind = "answer"


\* ---- C6 ----
OutOfBounds(q) == q < 3 \/ q > 2000

RejectedAsk(r) == request[r].endpoint = "/ask" /\ OutOfBounds(request[r].question)

\* A request with a question out of bounds holds the 422 and nothing of ask's.
C6_State ==
    \A r \in Reqs :
        (RejectedAsk(r) /\ pc[r] # "call_next") =>
            /\ pc[r] = "mw_exit"
            /\ response[r].status_code = 422
            /\ exc[r] = NoExc
            /\ trace[r] = NullId
            /\ attempt[r] = 0
            /\ provider_calls[r] = 0
            /\ completion[r] = None

\* Its steps open no trace, call no provider and record no token usage,
\* generation or score; the client receives the 422.
C6_Step ==
    \A r \in Reqs :
        (RejectedAsk(r) /\ pc'[r] # pc[r]) =>
            /\ UNCHANGED <<langfuse, TOKENS_USED, LLM_LATENCY, provider_calls>>
            /\ Exiting(r) => delivered'[r].status_code = 422
            /\ ~Exiting(r) => UNCHANGED <<metricVars, log>>

\* C6: a POST /ask whose question has fewer than 3 or more than 2000 characters
\* is answered 422 before any handler logic runs: no trace, no call_llm, no
\* token-usage, generation or score entry; only the middleware's metrics move.
C6_OutOfBoundsRejectedBeforeHandler == [](C6_State) /\ [][C6_Step]_vars

\* A question of 2001 characters has been answered 422.
C6_Witness ==
    \E r \in Reqs :
        /\ pc[r] = "mw_exit"
        /\ request[r].question = 2001
        /\ response[r].status_code = 422

\* ---- C9 ----
TracingDisabled ==
    ~(settings.langfuse_public_key /\ settings.langfuse_secret_key
        /\ settings.langfuse_host /\ HAS)

WrapperMethods == {"trace", "span", "generation", "score"}
WrapperArgs == {NoArg, [trace_id |-> NullId, name |-> "toxicity_safe", value |-> 8],
                [trace_id |-> "trace-1", name |-> "non_empty_answer", value |-> 0]}

IsAnswer(resp) == resp.status_code = OkStatus /\ resp.body.kind = "answer"

\* C9: with tracing disabled (credentials incomplete or the library not loaded),
\* trace, span, generation and score complete without raising for any arguments
\* and have no effect, trace/span/generation return an object whose id is
\* "null", and every successful POST /ask response has trace_id = "null" and
\* generation_id = "null".
C9_DisabledWrapperIsNoOp ==
    TracingDisabled =>
        /\ obs_client = "None"
        /\ langfuse = EmptyBackend
        /\ \A m \in WrapperMethods, a \in WrapperArgs :
              LET res == ObsCall(obs_client, langfuse, m, a)
              IN  /\ ~res.raised
                  /\ res.lf = langfuse
                  /\ m # "score" => res.id = "null"
        /\ \A r \in Reqs :
              /\ IsAnswer(response[r]) =>
                    /\ response[r].body.trace_id = "null"
                    /\ response[r].body.generation_id = "null"
              /\ IsAnswer(delivered[r]) =>
                    /\ delivered[r].body.trace_id = "null"
                    /\ delivered[r].body.generation_id = "null"

\* The three credentials are present but the library did not load, and a client
\* has received a successful answer.
C9_Witness ==
    /\ obs_enabled
    /\ ~HAS
    /\ \E r \in Reqs : IsAnswer(delivered[r]) /\ delivered[r].body.trace_id = "null"

\* ---- C10 ----
\* The decimal text of the status codes the service answers with
StatusText(n) ==
    CASE n = 200 -> <<"2", "0", "0">>
      [] n = 422 -> <<"4", "2", "2">>
      [] n = 502 -> <<"5", "0", "2">>
      [] n = 500 -> <<"5", "0", "0">>

\* The status of the response that was produced, 500 when the handler raised
\* before producing one
ProducedStatus(r) ==
    IF response[r] # NoResponse THEN response[r].status_code ELSE 500

C10_Step ==
    LET exits == {r \in Reqs : Exiting(r)}
    IN  IF exits = {}
        THEN REQUESTS_TOTAL' = REQUESTS_TOTAL
        ELSE \E r \in exits :
                /\ exits = {r}
                /\ REQUESTS_TOTAL' = REQUESTS_TOTAL (+)
                       SetToBag({[endpoint |-> request[r].endpoint,
                                  method |-> request[r].method,
                                  status |-> StatusText(ProducedStatus(r))]})
                /\ response[r] # NoResponse => delivered'[r] = response[r]
                /\ response[r] = NoResponse => delivered'[r].status_code = 500

C10_State ==
    BagCardinality(REQUESTS_TOTAL) = Cardinality({r \in Reqs : pc[r] = "done"})

\* C10: on every exit path the middleware increments the request-total counter
\* exactly once, under (endpoint, method, status of the response produced, 500
\* when the handler raised); no request is counted twice or under two statuses,
\* and the response passes through unchanged.
C10_CountedOnceWithFinalStatus == [](C10_State) /\ [][C10_Step]_vars

\* Two requests have exited, one with a 422 and one by an unhandled exception,
\* and each is counted once under its own status.
C10_Witness ==
    /\ \A r \in Reqs : pc[r] = "done"
    /\ \E r1, r2 \in Reqs :
          /\ delivered[r1].status_code = 422
          /\ delivered[r2].status_code = 500
    /\ CopiesIn([endpoint |-> "/ask", method |-> "POST", status |-> <<"4", "2", "2">>],
                REQUESTS_TOTAL) = 1
    /\ CopiesIn([endpoint |-> "/ask", method |-> "POST", status |-> <<"5", "0", "0">>],
                REQUESTS_TOTAL) = 1


\* ---- C7 ----
WordCount(t) == Len(Split(t))

EndsWithEllipsis(t) == Len(t) >= 1 /\ t[Len(t)] = ELLIPSIS

\* t without its last character
ButLast(t) == SubSeq(t, 1, Len(t) - 1)

\* t is the ellipsis appended, with no space, to the first m words of src
\* joined by single spaces
IsFirstWordsThenEllipsis(t, src, m) ==
    /\ EndsWithEllipsis(t)
    /\ LET kept == ButLast(t)
       IN  /\ WordCount(kept) = m
           /\ Split(kept) = SubSeq(Split(src), 1, m)
           /\ \A i \in 1..Len(kept) :
                 IsSpace(kept[i]) =>
                    /\ kept[i] = SPACE
                    /\ 1 < i /\ i < Len(kept)
                    /\ ~IsSpace(kept[i + 1])

Truncated == gpc = "out" /\ max_words # None /\ Val(max_words) < WordCount(text)

\* C7 as claimed: for every text and every integer limit M below its word count,
\* the result is the first M words and the ellipsis, and the answer has at most
\* M whitespace-separated words.
C7_AsClaimed ==
    Truncated =>
        /\ IsFirstWordsThenEllipsis(answer, text, Val(max_words))
        /\ WordCount(answer) <= Val(max_words)

\* C7, amended: for every text and every limit M with 0 <= M below its word
\* count, the result is the ellipsis appended to the first M words joined by
\* single spaces; for M >= 1 the answer has at most M whitespace-separated
\* words.  For M = 0 the answer is the lone ellipsis (one word to split()), and
\* for M < 0 it is the ellipsis after all but the last -M words.
C7_TruncatesToFirstWords ==
    Truncated =>
        /\ EndsWithEllipsis(answer)
        /\ Val(max_words) >= 0 => IsFirstWordsThenEllipsis(answer, text, Val(max_words))
        /\ Val(max_words) >= 1 => WordCount(answer) <= Val(max_words)
        /\ Val(max_words) = 0 => answer = <<ELLIPSIS>> /\ WordCount(answer) = 1
        /\ Val(max_words) < 0 =>
              LET keep == IF WordCount(text) + Val(max_words) > 0
                          THEN WordCount(text) + Val(max_words) ELSE 0
              IN  IsFirstWordsThenEllipsis(answer, text, keep)

\* A text of three words, the first two separated by a newline, cut to two.
C7_Witness ==
    /\ gpc = "out"
    /\ max_words = Some(2)
    /\ text = <<"a", NEWLINE, "a", SPACE, "a">>
    /\ answer = <<"a", SPACE, "a", ELLIPSIS>>

\* ---- C8 ----
FlaggedTerms == {bad[k] : k \in DOMAIN bad}

\* b occurs in t at position i, letter case ignored
OccursAt(t, b, i) ==
    /\ i + Len(b) - 1 <= Len(t)
    /\ \A j \in 1..Len(b) : LowerChar(t[i + j - 1]) = b[j]

\* the occurrences of all flagged terms in the case-folded text
AllOccurrences(t) ==
    {<<b, i>> \in FlaggedTerms \X (1..Len(t)) : OccursAt(t, b, i)}

\* the flagged terms that occur in the case-folded text
TermsPresent(t) == {b \in FlaggedTerms : \E i \in 1..Len(t) : OccursAt(t, b, i)}

\* max(0.0, 1.0 - 0.2 * n), and 1.0 for n = 0, in tenths
Penalised(n) == IF n = 0 THEN 10 ELSE IF 2 * n >= 10 THEN 0 ELSE 10 - 2 * n

Returning(r) == pc[r] = "call_llm" /\ pc'[r] = "ask_post"
Raising(r) == pc[r] = "call_llm" /\ pc'[r] # "ask_post" /\ attempt'[r] = attempt[r] + 1

\* The requests whose call_llm has returned
Returned ==
    {r \in Reqs : \/ pc[r] = "ask_post"
                  \/ pc[r] = "mw_exit" /\ IsAnswer(response[r])
                  \/ pc[r] = "done" /\ IsAnswer(delivered[r])}

\* The shortest and the longest provider call of the workload
MinDuration == CHOOSE d \in TimedLoad.durations : \A e \in TimedLoad.durations : d <= e
MaxDuration == CHOOSE d \in TimedLoad.durations : \A e \in TimedLoad.durations : d >= e

\* The histogram holds one observation per invocation that has returned and
\* none for any other, each no longer than one provider call.
C11_State ==
    /\ LLM_LATENCY = Cardinality(Returned)
    /\ LLM_LATENCY_SUM >= LLM_LATENCY * MinDuration
    /\ LLM_LATENCY_SUM <= LLM_LATENCY * MaxDuration
    /\ \A r \in Reqs : pc[r] = "ask_post" => perf_counter[r] - t0[r] \in TimedLoad.durations
    /\ \A r \in Reqs : pc[r] \in {"ask_except", "ask_raise"} => r \notin Returned

\* An execution that returns adds one observation, of the time that execution
\* alone took; an execution that raises, and every other step, adds none.
C11_Step ==
    /\ \A r \in Reqs :
            /\ Returning(r) =>
                    /\ LLM_LATENCY' = LLM_LATENCY + 1
                    /\ LLM_LATENCY_SUM' - LLM_LATENCY_SUM = perf_counter'[r] - perf_counter[r]
                    /\ t0'[r] = perf_counter[r]
            /\ Raising(r) => UNCHANGED <<LLM_LATENCY, LLM_LATENCY_SUM>>
    /\ (\A r \in Reqs : ~Returning(r)) => UNCHANGED <<LLM_LATENCY, LLM_LATENCY_SUM>>

\* C11: call_llm records into the LLM-latency histogram exactly one observation
\* when some attempt returns and zero when every attempt raises: an attempt that
\* raises never records, and the recorded duration spans only the attempt that
\* returned (its timer starts at that attempt, not at the first attempt nor
\* across the backoff waits).
C11_OneObservationOfReturningAttempt == []C11_State /\ [][C11_Step]_vars

\* A third attempt returns after two that raised and the two waits between
\* them; the histogram holds that attempt's two tenths alone.
C11_Witness ==
    \E r \in Reqs :
        /\ pc[r] = "ask_post"
        /\ attempt[r] = MaxAttempts
        /\ slept[r] = MaxAttempts - 1
        /\ t0[r] >= wait_exponential(1) + wait_exponential(2) + 2 * MinDuration
        /\ perf_counter[r] - t0[r] = MaxDuration
        /\ LLM_LATENCY = 1
        /\ LLM_LATENCY_SUM = MaxDuration

\* ---- C12 ----
IsHealth(resp) == resp.status_code = OkStatus /\ resp.body.kind = "health"

\* The health responses produced so far, in the middleware or at the client
HealthResponses ==
    {resp \in {response[r] : r \in Reqs} \cup {delivered[r] : r \in Reqs} : IsHealth(resp)}

TracingCredentials == {"langfuse_public_key", "langfuse_secret_key", "langfuse_host"}
CredentialsComplete == \A k \in TracingCredentials : settings[k]
WrapperActive == obs_client = "Langfuse"

\* C12 as claimed: the langfuse_enabled flag of GET /health is true exactly
\* when the wrapper is in its active variant, for every combination of the
\* three credentials and of the library having loaded or not.
C12_AsClaimed ==
    \A resp \in HealthResponses : resp.body.langfuse_enabled <=> WrapperActive

C12_State ==
    /\ WrapperActive <=> (CredentialsComplete /\ HAS)
    /\ \A resp \in HealthResponses :
            /\ resp.body.langfuse_enabled <=> CredentialsComplete
            /\ WrapperActive => resp.body.langfuse_enabled
            /\ HAS => (resp.body.langfuse_enabled <=> WrapperActive)
            /\ (CredentialsComplete /\ ~HAS) => (resp.body.langfuse_enabled /\ ~WrapperActive)

C12_Step == UNCHANGED <<settings, HAS, obs_enabled, obs_client>>

\* C12, amended: the langfuse_enabled flag of GET /health is true exactly
\* when all three tracing credentials are present, whether the library loaded
\* or not; the wrapper is active exactly when the credentials are complete and
\* the library loaded, so the flag agrees with the wrapper's variant when the
\* library loaded and is true over a disabled wrapper when the credentials are
\* complete and it did not.  Flag and variant are fixed at startup.
C12_FlagReportsCredentials == []C12_State /\ [][C12_Step]_vars

\* Credentials complete, library not loaded: the client is told that tracing
\* is enabled while the wrapper is the no-op one.
C12_Witness ==
    \E r \in Reqs :
        /\ pc[r] = "done"
        /\ IsHealth(delivered[r])
        /\ delivered[r].body.langfuse_enabled
        /\ CredentialsComplete
        /\ ~HAS
        /\ ~WrapperActive

====
